---- MODULE Spec2Model ----
(***************************************************************************)
(* Model of ramhorns' Template::parse (src/ramhorns/src/template/parse.rs).*)
(*                                                                         *)
(* A source is a sequence of one-character strings.  Offsets into the      *)
(* source (pos, last, span starts and ends) and indices into the block     *)
(* list (tail_idx, stack frames) are 0-based, as in the Rust code; the     *)
(* TLA+ sequences that hold them are 1-based, so byte offset p is src[p+1] *)
(* and block index i is blocks[i+1].                                       *)
(*                                                                         *)
(* One step of the model is one token of the tag being parsed: OpenTag is  *)
(* the head of the while loop up to the dispatch on the tag kind, and each *)
(* arm of the match has one action per arm of its inner token match.       *)
(***************************************************************************)
EXTENDS Integers, Sequences, FiniteSets, TLC

(***************************************************************************)
(* Bounds of the model.                                                    *)
(***************************************************************************)
\* Number of pieces a generated source is made of.
MaxPieces == 3

(***************************************************************************)
(* Program constants.                                                      *)
(***************************************************************************)
\* ArrayVec::<usize, 16>
StackCap == 16
\* Braces::Two = 2, Braces::Three = 3
Two == 2
Three == 3

(***************************************************************************)
(* Characters and strings.                                                 *)
(***************************************************************************)
Alphabet ==
  <<"{", "}", " ", "#", "^", "/", ">", "!", "&", ".", "a", "b", "c", "s", "p", "x",
    "e", "f", "i", "l", "m", "n", "o", "r", "t", "w", "H", "A", "B">>

Code(ch) == CHOOSE i \in 1..Len(Alphabet) : Alphabet[i] = ch

\* &src[a..b]
Slice(src, a, b) == SubSeq(src, a + 1, b)

\* The byte at offset p, or "" past the end of the source.
At(src, p) == IF p < Len(src) THEN src[p + 1] ELSE ""

RECURSIVE Flatten(_)
Flatten(ps) == IF ps = <<>> THEN <<>> ELSE Head(ps) \o Flatten(Tail(ps))

RECURSIVE Repeat(_, _)
Repeat(s, n) == IF n = 0 THEN <<>> ELSE s \o Repeat(s, n - 1)

(***************************************************************************)
(* hash_name: the identifier hash (super::hash_name).  The parser only     *)
(* compares hashes for equality.  Modelled as a positional hash of the     *)
(* character codes; it is collision-free on names of up to five characters.*)
(***************************************************************************)
HashBase == 31
HashMod == 49999991

RECURSIVE HashFrom(_, _)
HashFrom(h, s) ==
  IF s = <<>> THEN h
  ELSE HashFrom((h * HashBase + Code(Head(s))) % HashMod, Tail(s))

hash_name(name) == HashFrom(0, name)

(***************************************************************************)
(* Blocks.                                                                 *)
(***************************************************************************)
Tags == {"Escaped", "Unescaped", "Section", "Inverse", "Closing", "Partial", "Comment"}

\* Block::new(html, name, tag)
Block_new(h, n, t) ==
  [html |-> h, name |-> n, hash |-> hash_name(n), tag |-> t, children |-> 0]

\* Block::nameless(html, tag)
Block_nameless(h, t) ==
  [html |-> h, name |-> <<>>, hash |-> 0, tag |-> t, children |-> 0]

(***************************************************************************)
(* The Opening lexer (lines 16-38).  Logos takes the longest match at the  *)
(* current position: "{{" followed by one of & { # ^ / > ! is the three-   *)
(* byte sigil, any other "{{" is the Escaped sigil, a "{" not followed by  *)
(* "{" and every byte other than "{" are skipped.                          *)
(***************************************************************************)
SigilTag(ch) ==
  CASE ch = "&" -> "Unescaped"
    [] ch = "{" -> "Unescaped"
    [] ch = "#" -> "Section"
    [] ch = "^" -> "Inverse"
    [] ch = "/" -> "Closing"
    [] ch = ">" -> "Partial"
    [] ch = "!" -> "Comment"
    [] OTHER    -> "Escaped"

SigilChars == {"&", "{", "#", "^", "/", ">", "!"}

\* lex.next() in Opening mode from offset p: the token, its tag, its span
\* and whether its callback sets extras to Braces::Three.
RECURSIVE OpeningNext(_, _)
OpeningNext(src, p) ==
  IF p >= Len(src)
    THEN [tok |-> "None", tag |-> "", start |-> Len(src), end |-> Len(src),
          three |-> FALSE]
  ELSE IF At(src, p) = "{" /\ At(src, p + 1) = "{"
    THEN IF At(src, p + 2) \in SigilChars
           THEN [tok |-> "Match", tag |-> SigilTag(At(src, p + 2)),
                 start |-> p, end |-> p + 3, three |-> (At(src, p + 2) = "{")]
           ELSE [tok |-> "Match", tag |-> "Escaped",
                 start |-> p, end |-> p + 2, three |-> FALSE]
  ELSE OpeningNext(src, p + 1)

(***************************************************************************)
(* The Closing lexer (lines 40-56).  Runs of spaces are skipped.  "}}}" is *)
(* Match whatever extras is; "}}" not followed by "}" is Match unless      *)
(* extras is Three, and then its callback returns false and the token is   *)
(* the error token; a single "}" matches nothing and is the error token;   *)
(* any other byte starts an Ident, a maximal run of bytes that are neither *)
(* a space nor "}".                                                        *)
(***************************************************************************)
RECURSIVE IdentEnd(_, _)
IdentEnd(src, p) ==
  IF p < Len(src) /\ At(src, p) \notin {" ", "}"} THEN IdentEnd(src, p + 1) ELSE p

\* A callback that never fails the match.
TwoBracesMatch_always(extras) == TRUE

\* The callback of #[token("}}")]
TwoBracesMatch(extras) == extras # Three

RECURSIVE ClosingNext(_, _, _)
ClosingNext(src, p, extras) ==
  IF p >= Len(src)
    THEN [tok |-> "None", start |-> Len(src), end |-> Len(src)]
  ELSE IF At(src, p) = " "
    THEN ClosingNext(src, p + 1, extras)
  ELSE IF At(src, p) = "}"
    THEN IF At(src, p + 1) = "}"
           THEN IF At(src, p + 2) = "}"
                  THEN [tok |-> "Match", start |-> p, end |-> p + 3]
                  ELSE [tok |-> IF TwoBracesMatch(extras) THEN "Match" ELSE "Err",
                        start |-> p, end |-> p + 2]
           ELSE [tok |-> "Err", start |-> p, end |-> p + 1]
  ELSE [tok |-> "Ident", start |-> p, end |-> IdentEnd(src, p)]

(***************************************************************************)
(* The partial resolver (partials.get_partial).  A fixed resolver: it      *)
(* knows the partial "p", a template of one Comment block with html "P"    *)
(* and capacity hint 1, and no other.                                      *)
(***************************************************************************)
PartialP ==
  [blocks |-> << Block_nameless(<<"P">>, "Comment") >>, capacity_hint |-> 1]

get_partial(name) ==
  IF name = <<"p">>
    THEN [ok |-> TRUE, blocks |-> PartialP.blocks,
          capacity_hint |-> PartialP.capacity_hint]
    ELSE [ok |-> FALSE, blocks |-> <<>>, capacity_hint |-> 0]

(***************************************************************************)
(* Sources.                                                                *)
(***************************************************************************)
Pieces ==
  { <<"{", "{", "#", "a", "}", "}">>,
    <<"{", "{", "/", "a", "}", "}">>,
    <<"{", "{", "#", "a", " ", "b", "}", "}">>,
    <<"{", "{", "/", "b", " ", "a", "}", "}">>,
    <<"{", "{", "/", "b", "}", "}">>,
    <<"{", "{", " ", "a", " ", "b", " ", "}", "}">>,
    <<"{", "{", "{", "a", "}", "}", "}">>,
    <<"{", "{", "!", "}", "}">>,
    <<"{", "{", "^", "b", "}", "}">>,
    <<"{", "{", ">", "p", "}", "}">>,
    <<"{", "{">>,
    <<"{", "{", "#">>,
    <<"{", "{", "/">>,
    <<"}", "}">>,
    <<"}">>,
    <<"a">>,
    <<" ">>,
    <<"x">> }

\* The pieces that are a whole tag with at least one identifier, or literal
\* text.
TagPieces ==
  { <<"{", "{", "#", "a", "}", "}">>,
    <<"{", "{", "/", "a", "}", "}">>,
    <<"{", "{", "#", "a", " ", "b", "}", "}">>,
    <<"{", "{", "/", "b", " ", "a", "}", "}">>,
    <<"{", "{", "/", "b", "}", "}">>,
    <<"{", "{", " ", "a", " ", "b", " ", "}", "}">>,
    <<"{", "{", "{", "a", "}", "}", "}">>,
    <<"{", "{", "^", "b", "}", "}">>,
    <<"a">>,
    <<" ">>,
    <<"x">> }

TagSources ==
  { Flatten(ps) : ps \in UNION { [1..n -> TagPieces] : n \in 0..MaxPieces } }

Generated ==
  { Flatten(ps) : ps \in UNION { [1..n -> Pieces] : n \in 0..MaxPieces } }

\* {{#a}}x{{/b}}
Src_a_x_close_b ==
  <<"{","{","#","a","}","}", "x", "{","{","/","b","}","}">>
\* {{/x}}
Src_close_x == <<"{","{","/","x","}","}">>
\* {{#a}}{{/a b}}
Src_a_close_a_b ==
  <<"{","{","#","a","}","}", "{","{","/","a"," ","b","}","}">>

\* {{#a}}{{#b}}x{{/b a}}
Src_a_b_x_close_b_a ==
  <<"{","{","#","a","}","}", "{","{","#","b","}","}", "x",
    "{","{","/","b"," ","a","}","}">>
\* {{#a}}{{#b}}x{{/a b}}
Src_a_b_x_close_a_b ==
  <<"{","{","#","a","}","}", "{","{","#","b","}","}", "x",
    "{","{","/","a"," ","b","}","}">>
\* {{#a b}}x{{/b a}}
Src_ab_x_close_b_a ==
  <<"{","{","#","a"," ","b","}","}", "x", "{","{","/","b"," ","a","}","}">>
\* {{#a b}}x{{/b}}
Src_ab_x_close_b ==
  <<"{","{","#","a"," ","b","}","}", "x", "{","{","/","b","}","}">>

\* {{#a.b c}}, {{/c b a}} and {{/c a.b}}, and what stands between them
Open_ab_c == <<"{","{","#","a",".","b"," ","c","}","}">>
Close_c_b_a == <<"{","{","/","c"," ","b"," ","a","}","}">>
Close_c_ab == <<"{","{","/","c"," ","a",".","b","}","}">>
DottedBodies ==
  { <<>>, <<"x">>, <<"x", " ", "{", "{", "a", " ", "b", "}", "}", "x">> }

\* {{foo}}}
Src_foo_3 == <<"{","{","f","o","o","}","}","}">>
\* {{{raw}}} and {{{raw}}}}
Src_raw_3 == <<"{","{","{","r","a","w","}","}","}">>
Src_raw_4 == <<"{","{","{","r","a","w","}","}","}","}">>
\* {{#items}}x{{/items}}
Src_items ==
  <<"{","{","#","i","t","e","m","s","}","}","x","{","{","/","i","t","e","m","s","}","}">>
\* Hello {{name}}!
Src_hello == <<"H","e","l","l","o"," ","{","{","n","a","m","e","}","}","!">>
\* A {{>p}} B
Src_A_p_B == <<"A"," ","{","{",">","p","}","}"," ","B">>
\* {{>}} }}
Src_partial_noident == <<"{","{",">","}","}"," ","}","}">>
\* {{{a}}}{{b}}x and {{b}}x
Src_a3_b_x == <<"{","{","{","a","}","}","}","{","{","b","}","}","x">>
Src_b_x == <<"{","{","b","}","}","x">>
\* {{foo}}}{{b}}
Src_foo_3_b == <<"{","{","f","o","o","}","}","}","{","{","b","}","}">>

OpenS == <<"{", "{", "#", "s", "}", "}">>
CloseS == <<"{", "{", "/", "s", "}", "}">>

Examples ==
  { Src_foo_3,
    Src_raw_3,
    Src_raw_4,
    Src_items,
    Src_hello,
    Src_A_p_B,
    Src_partial_noident,
    Src_a3_b_x,
    Src_b_x,
    Src_foo_3_b,
    Src_a_b_x_close_b_a,
    Src_a_b_x_close_a_b,
    Src_ab_x_close_b_a,
    Src_ab_x_close_b,
    Src_a_x_close_b,
    Src_close_x,
    Src_a_close_a_b,
    \* {{#a}}{{^a b}}
    <<"{","{","#","a","}","}", "{","{","^","a"," ","b","}","}">>,
    \* {{! a b c}}x
    <<"{","{","!"," ","a"," ","b"," ","c","}","}", "x">>,
    \* {{& a b c}}
    <<"{","{","&"," ","a"," ","b"," ","c","}","}">>,
    \* {{^a b c}}{{/c b a}}
    <<"{","{","^","a"," ","b"," ","c","}","}",
      "{","{","/","c"," ","b"," ","a","}","}">>,
    \* {{>a b}}, {{>x}}
    <<"{","{",">","a"," ","b","}","}">>,
    <<"{","{",">","x","}","}">>,
    \* 17 nested {{#s}}
    Repeat(OpenS, StackCap + 1),
    \* 16 nested {{#s}}, all closed
    Repeat(OpenS, StackCap) \o Repeat(CloseS, StackCap),
    \* 15 nested {{#s}}, then {{#a b}} and {{^a b c}}
    Repeat(OpenS, StackCap - 1) \o <<"{","{","#","a"," ","b","}","}">>,
    Repeat(OpenS, StackCap - 1) \o <<"{","{","^","a"," ","b"," ","c","}","}">> }

Dotted ==
  { Open_ab_c \o b \o Close_c_b_a : b \in DottedBodies }
    \cup { Open_ab_c \o b \o Close_c_ab : b \in DottedBodies }

Sources == Generated \cup Examples \cup Dotted

(***************************************************************************)
(* State.                                                                  *)
(***************************************************************************)
VARIABLES
  source,         \* the source being parsed
  pc,             \* "open", the arm of the tag being parsed, or "done"
  pos,            \* the lexer's position (the end of its last token)
  extras,         \* lex.extras, the number of closing braces expected
  last,           \* the cursor: the start of the next literal
  stack,          \* the opener stack, indices into blocks
  blocks,         \* self.blocks
  capacity_hint,  \* self.capacity_hint
  html,           \* the literal captured for the tag being parsed
  name,           \* the identifier most recently sliced
  tag,            \* the kind of the tag being parsed
  tail_idx,       \* self.blocks.len() when the tag was opened
  tok,            \* _tok, the first token of the tag in closing mode
  result          \* what parse returned

vars ==
  <<source, pc, pos, extras, last, stack, blocks, capacity_hint, html, name,
    tag, tail_idx, tok, result>>

Running == [kind |-> "Running", name |-> <<>>, tail |-> 0]
Ok(t) == [kind |-> "Ok", name |-> <<>>, tail |-> t]
Err(k, n) == [kind |-> k, name |-> n, tail |-> 0]

Init ==
  /\ source \in Sources
  /\ pc = "open"
  /\ pos = 0
  /\ extras = Two
  /\ last = 0
  /\ stack = <<>>
  /\ blocks = <<>>
  /\ capacity_hint = 0
  /\ html = <<>>
  /\ name = <<>>
  /\ tag = ""
  /\ tail_idx = 0
  /\ tok = "None"
  /\ result = Running


(***************************************************************************)
(* Helpers of the actions.                                                 *)
(***************************************************************************)
\* match tag { ... }: the arm of a tag kind
ArmOf(t) ==
  CASE t \in {"Escaped", "Unescaped"} -> "escaped"
    [] t \in {"Section", "Inverse"}   -> "section"
    [] t = "Closing"                  -> "closing"
    [] t = "Partial"                  -> "partial"
    [] OTHER                          -> "comment"

\* matches!(Some(Closing::Ident), _tok): the macro's second argument is the
\* pattern, and the pattern _tok is an identifier, which any value matches.
FirstTokenMatches(t) == TRUE

\* try_push without the capacity check.
try_push_unchecked(stk, v) == [ok |-> TRUE, stack |-> Append(stk, v)]

\* try_push that pushes nothing.
try_push_dropped(stk, v) == [ok |-> Len(stk) < StackCap, stack |-> stk]

\* stack.try_push(v)
try_push(stk, v) ==
  IF Len(stk) < StackCap
    THEN [ok |-> TRUE, stack |-> Append(stk, v)]
    ELSE [ok |-> FALSE, stack |-> stk]

\* No back-fill: the synthetic Sections keep children 0.
Backfill_skipped(bs, t) == bs

\* A back-fill that starts at the first block of the template.
Backfill_all(bs, t) ==
  [i \in 1..Len(bs) |->
     IF i < Len(bs) THEN [bs[i] EXCEPT !.children = Len(bs) - i] ELSE bs[i]]

\* The children back-fill of the Escaped/Unescaped arm (lines 124-127).
Backfill(bs, t) ==
  LET d == Len(bs) - t - 1
  IN [i \in 1..Len(bs) |->
        IF i - 1 >= t /\ i - 1 < t + d
          THEN [bs[i] EXCEPT !.children = d - (i - 1 - t)]
          ELSE bs[i]]

\* children counted one past the Closing block.
ChildrenOf_offByOne(t, head_idx) == t - head_idx + 1

\* An opener left without its children count.
ChildrenOf_none(t, head_idx) == 0

\* head.children = (tail_idx - head_idx) as u32
ChildrenOf(t, head_idx) == t - head_idx

\* pop_section reporting the closing tag's identifier on a mismatch.
pop_section_reportsCloser(stk, bs, n, t) ==
  IF stk = <<>>
    THEN [ok |-> FALSE, err |-> Err("UnopenedSection", n), stack |-> stk,
          blocks |-> bs]
    ELSE LET head_idx == stk[Len(stk)]
             head == bs[head_idx + 1]
         IN [ok |-> head.hash = hash_name(n),
             err |-> Err("UnclosedSection", n),
             stack |-> SubSeq(stk, 1, Len(stk) - 1),
             blocks |-> [bs EXCEPT ![head_idx + 1].children = t - head_idx]]

\* pop_section reporting an empty stack as a mismatch.
pop_section_emptyIsUnclosed(stk, bs, n, t) ==
  IF stk = <<>>
    THEN [ok |-> FALSE, err |-> Err("UnclosedSection", n), stack |-> stk,
          blocks |-> bs]
    ELSE LET head_idx == stk[Len(stk)]
             head == bs[head_idx + 1]
         IN [ok |-> head.hash = hash_name(n),
             err |-> Err("UnclosedSection", head.name),
             stack |-> SubSeq(stk, 1, Len(stk) - 1),
             blocks |-> [bs EXCEPT ![head_idx + 1].children = t - head_idx]]

\* pop_section reading the top frame without popping it.
pop_section_peeks(stk, bs, n, t) ==
  IF stk = <<>>
    THEN [ok |-> FALSE, err |-> Err("UnopenedSection", n), stack |-> stk,
          blocks |-> bs]
    ELSE LET head_idx == stk[Len(stk)]
             head == bs[head_idx + 1]
         IN [ok |-> head.hash = hash_name(n),
             err |-> Err("UnclosedSection", head.name),
             stack |-> stk,
             blocks |-> [bs EXCEPT ![head_idx + 1].children = t - head_idx]]

\* The closure pop_section (lines 150-163) applied to identifier n.
pop_section(stk, bs, n, t) ==
  IF stk = <<>>
    THEN [ok |-> FALSE, err |-> Err("UnopenedSection", n), stack |-> stk,
          blocks |-> bs]
    ELSE LET head_idx == stk[Len(stk)]
             head == bs[head_idx + 1]
             bs2 == [bs EXCEPT ![head_idx + 1].children = ChildrenOf(t, head_idx)]
         IN [ok |-> head.hash = hash_name(n),
             err |-> Err("UnclosedSection", head.name),
             stack |-> SubSeq(stk, 1, Len(stk) - 1),
             blocks |-> bs2]

\* The token the closing lexer yields next.
Tok == ClosingNext(source, pos, extras)

\* closing.slice()
SliceOf(c) == Slice(source, c.start, c.end)

\* The cursor set to the end of the matched token.
NewLast_tokenEnd(c, x) == c.end

\* The cursor set one byte short.
NewLast_offByOne(c, x) == c.start + x - 1

\* The cursor advanced by three braces whatever was expected.
NewLast_alwaysThree(c, x) == c.start + Three

\* The new cursor (line 203).
NewLast(c, x) == c.start + x

\* The end of a tag without the reset of extras.
CloseTag_noReset(c) ==
  /\ last' = NewLast(c, extras)
  /\ pos' = c.end
  /\ extras' = extras
  /\ pc' = "open"

\* Lines 203-205: the end of a tag whose closing Match is c.
CloseTag(c) ==
  /\ last' = NewLast(c, extras)
  /\ pos' = c.end
  /\ extras' = Two
  /\ pc' = "open"

\* return Err(e)
Fail(c, e) ==
  /\ pc' = "done"
  /\ result' = e
  /\ pos' = c.end

(***************************************************************************)
(* The head of the while loop (lines 82-106).                              *)
(***************************************************************************)
OpenTag ==
  /\ pc = "open"
  /\ LET o == OpeningNext(source, pos)
         x == IF o.three THEN Three ELSE extras
         c == ClosingNext(source, o.end, x)
     IN /\ o.tok = "Match"
        /\ tag' = o.tag
        /\ extras' = x
        /\ html' = Slice(source, last, o.start)
        /\ capacity_hint' = capacity_hint + Len(html')
        /\ tail_idx' = Len(blocks)
        /\ tok' = c.tok
        /\ pos' = c.end
        /\ IF ~FirstTokenMatches(c.tok)
             THEN /\ pc' = "done"
                  /\ result' = Err("UnclosedTag", <<>>)
                  /\ name' = name
             ELSE /\ pc' = ArmOf(o.tag)
                  /\ result' = result
                  /\ name' = SliceOf(c)
  /\ UNCHANGED <<source, last, stack, blocks>>

\* The lexer reaches the end of the source: Ok(last) (line 208).
Finish ==
  /\ pc = "open"
  /\ OpeningNext(source, pos).tok = "None"
  /\ pc' = "done"
  /\ pos' = Len(source)
  /\ result' = Ok(last)
  /\ UNCHANGED <<source, extras, last, stack, blocks, capacity_hint, html,
                 name, tag, tail_idx, tok>>

(***************************************************************************)
(* Tag::Escaped | Tag::Unescaped (lines 108-128).                          *)
(***************************************************************************)
EscapedIdent ==
  /\ pc = "escaped"
  /\ Tok.tok = "Ident"
  /\ blocks' = Append(blocks, Block_new(html, name, "Section"))
  /\ name' = SliceOf(Tok)
  /\ html' = <<>>
  /\ pos' = Tok.end
  /\ UNCHANGED <<source, pc, extras, last, stack, capacity_hint, tag, tail_idx,
                 tok, result>>

EscapedMatch ==
  /\ pc = "escaped"
  /\ Tok.tok = "Match"
  /\ blocks' = Backfill(Append(blocks, Block_new(html, name, tag)), tail_idx)
  /\ CloseTag(Tok)
  /\ UNCHANGED <<source, stack, capacity_hint, html, name, tag, tail_idx, tok,
                 result>>

EscapedErr ==
  /\ pc = "escaped"
  /\ Tok.tok \in {"Err", "None"}
  /\ Fail(Tok, Err("UnclosedTag", <<>>))
  /\ UNCHANGED <<source, extras, last, stack, blocks, capacity_hint, html,
                 name, tag, tail_idx, tok>>

(***************************************************************************)
(* Tag::Section | Tag::Inverse (lines 129-146).                            *)
(***************************************************************************)
SectionIdent ==
  /\ pc = "section"
  /\ Tok.tok = "Ident"
  /\ try_push(stack, Len(blocks)).ok
  /\ stack' = try_push(stack, Len(blocks)).stack
  /\ blocks' = Append(blocks, Block_new(html, name, "Section"))
  /\ name' = SliceOf(Tok)
  /\ html' = <<>>
  /\ pos' = Tok.end
  /\ UNCHANGED <<source, pc, extras, last, capacity_hint, tag, tail_idx, tok,
                 result>>

SectionMatch ==
  /\ pc = "section"
  /\ Tok.tok = "Match"
  /\ try_push(stack, Len(blocks)).ok
  /\ stack' = try_push(stack, Len(blocks)).stack
  /\ blocks' = Append(blocks, Block_new(html, name, tag))
  /\ CloseTag(Tok)
  /\ UNCHANGED <<source, capacity_hint, html, name, tag, tail_idx, tok, result>>

\* stack.try_push(...)? fails: the capacity error is returned.
SectionOverflow ==
  /\ pc = "section"
  /\ Tok.tok \in {"Ident", "Match"}
  /\ ~try_push(stack, Len(blocks)).ok
  /\ Fail(Tok, Err("NestingOverflow", <<>>))
  /\ UNCHANGED <<source, extras, last, stack, blocks, capacity_hint, html,
                 name, tag, tail_idx, tok>>

SectionErr ==
  /\ pc = "section"
  /\ Tok.tok \in {"Err", "None"}
  /\ Fail(Tok, Err("UnclosedTag", <<>>))
  /\ UNCHANGED <<source, extras, last, stack, blocks, capacity_hint, html,
                 name, tag, tail_idx, tok>>

(***************************************************************************)
(* Tag::Closing (lines 147-175).                                           *)
(***************************************************************************)
\* Lines 148-165: the Closing block and pop_section(name).
ClosingFirst ==
  /\ pc = "closing"
  /\ LET r == pop_section(stack, Append(blocks, Block_nameless(html, "Closing")),
                          name, tail_idx)
     IN /\ blocks' = r.blocks
        /\ stack' = r.stack
        /\ IF r.ok
             THEN pc' = "closing_loop" /\ result' = result
             ELSE pc' = "done" /\ result' = r.err
  /\ UNCHANGED <<source, pos, extras, last, capacity_hint, html, name, tag,
                 tail_idx, tok>>

\* Line 169: pop_section(closing.slice()).
ClosingIdent ==
  /\ pc = "closing_loop"
  /\ Tok.tok = "Ident"
  /\ LET r == pop_section(stack, blocks, SliceOf(Tok), tail_idx)
     IN /\ blocks' = r.blocks
        /\ stack' = r.stack
        /\ IF r.ok
             THEN pc' = pc /\ result' = result
             ELSE pc' = "done" /\ result' = r.err
  /\ pos' = Tok.end
  /\ UNCHANGED <<source, extras, last, capacity_hint, html, name, tag,
                 tail_idx, tok>>

ClosingMatch ==
  /\ pc = "closing_loop"
  /\ Tok.tok = "Match"
  /\ CloseTag(Tok)
  /\ UNCHANGED <<source, stack, blocks, capacity_hint, html, name, tag,
                 tail_idx, tok, result>>

ClosingErr ==
  /\ pc = "closing_loop"
  /\ Tok.tok \in {"Err", "None"}
  /\ Fail(Tok, Err("UnclosedTag", <<>>))
  /\ UNCHANGED <<source, extras, last, stack, blocks, capacity_hint, html,
                 name, tag, tail_idx, tok>>

(***************************************************************************)
(* Tag::Partial (lines 176-186).                                           *)
(***************************************************************************)
PartialErr ==
  /\ pc = "partial"
  /\ Tok.tok # "Match"
  /\ Fail(Tok, Err("UnclosedTag", <<>>))
  /\ UNCHANGED <<source, extras, last, stack, blocks, capacity_hint, html,
                 name, tag, tail_idx, tok>>

\* partials.get_partial(name)? fails, after the Partial block was pushed.
PartialNotFound ==
  /\ pc = "partial"
  /\ Tok.tok = "Match"
  /\ ~get_partial(name).ok
  /\ blocks' = Append(blocks, Block_nameless(html, tag))
  /\ Fail(Tok, Err("PartialNotFound", name))
  /\ UNCHANGED <<source, extras, last, stack, capacity_hint, html, name, tag,
                 tail_idx, tok>>

\* Inlining that forgets the partial's capacity hint.
PartialInline_noHint ==
  /\ pc = "partial"
  /\ Tok.tok = "Match"
  /\ get_partial(name).ok
  /\ blocks' = Append(blocks, Block_nameless(html, tag)) \o get_partial(name).blocks
  /\ CloseTag(Tok)
  /\ UNCHANGED <<source, stack, capacity_hint, html, name, tag, tail_idx,
                 tok, result>>

PartialInline ==
  /\ pc = "partial"
  /\ Tok.tok = "Match"
  /\ get_partial(name).ok
  /\ blocks' = Append(blocks, Block_nameless(html, tag)) \o get_partial(name).blocks
  /\ capacity_hint' = capacity_hint + get_partial(name).capacity_hint
  /\ CloseTag(Tok)
  /\ UNCHANGED <<source, stack, html, name, tag, tail_idx, tok, result>>

(***************************************************************************)
(* Tag::Comment, the remaining arm (lines 187-196).                        *)
(***************************************************************************)
\* A Comment arm that emits a block for each identifier, as the variable
\* arm does.
CommentIdent_pushes ==
  /\ pc = "comment"
  /\ Tok.tok = "Ident"
  /\ blocks' = Append(blocks, Block_nameless(html, tag))
  /\ pos' = Tok.end
  /\ UNCHANGED <<source, pc, extras, last, stack, capacity_hint, html,
                 name, tag, tail_idx, tok, result>>

CommentIdent ==
  /\ pc = "comment"
  /\ Tok.tok = "Ident"
  /\ pos' = Tok.end
  /\ UNCHANGED <<source, pc, extras, last, stack, blocks, capacity_hint, html,
                 name, tag, tail_idx, tok, result>>

CommentMatch ==
  /\ pc = "comment"
  /\ Tok.tok = "Match"
  /\ blocks' = Append(blocks, Block_nameless(html, tag))
  /\ CloseTag(Tok)
  /\ UNCHANGED <<source, stack, capacity_hint, html, name, tag, tail_idx, tok,
                 result>>

CommentErr ==
  /\ pc = "comment"
  /\ Tok.tok \in {"Err", "None"}
  /\ Fail(Tok, Err("UnclosedTag", <<>>))
  /\ UNCHANGED <<source, extras, last, stack, blocks, capacity_hint, html,
                 name, tag, tail_idx, tok>>

Next ==
  \/ OpenTag
  \/ Finish
  \/ EscapedIdent
  \/ EscapedMatch
  \/ EscapedErr
  \/ SectionIdent
  \/ SectionMatch
  \/ SectionOverflow
  \/ SectionErr
  \/ ClosingFirst
  \/ ClosingIdent
  \/ ClosingMatch
  \/ ClosingErr
  \/ PartialErr
  \/ PartialNotFound
  \/ PartialInline
  \/ CommentIdent
  \/ CommentMatch
  \/ CommentErr

Spec == Init /\ [][Next]_vars

(***************************************************************************)
(* Type correctness.                                                       *)
(***************************************************************************)
TypeOK ==
  /\ pc \in {"open", "escaped", "section", "closing", "closing_loop",
             "partial", "comment", "done"}
  /\ pos \in 0..Len(source)
  /\ extras \in {Two, Three}
  /\ last \in 0..Len(source)
  /\ \A i \in 1..Len(stack) : stack[i] \in 0..(Len(blocks) - 1)
  /\ \A i \in 1..Len(blocks) : blocks[i].tag \in Tags
  /\ (pc = "done") = (result.kind # "Running")


(***************************************************************************)
(* The tag being parsed, read from the source.  While a tag is parsed the  *)
(* cursor last still marks the start of the literal in front of it.        *)
(***************************************************************************)
DoubleBraceAt(src, q) == At(src, q) = "{" /\ At(src, q + 1) = "{"

\* The offset of the first "{{" at or after p (the source's length if none).
FirstTagFrom(src, p) ==
  CHOOSE q \in p..Len(src) :
    /\ q = Len(src) \/ DoubleBraceAt(src, q)
    /\ \A r \in p..(q - 1) : ~DoubleBraceAt(src, r)

TagStart == FirstTagFrom(source, last)

SigilEnd == TagStart + (IF At(source, TagStart + 2) \in SigilChars THEN 3 ELSE 2)

\* The literal between the cursor and the tag.
CapturedHtml == Slice(source, last, TagStart)

\* The space-separated words of s.
RECURSIVE Words(_)
Words(s) ==
  IF s = <<>> THEN <<>>
  ELSE IF Head(s) = " " THEN Words(Tail(s))
  ELSE LET n == CHOOSE k \in 1..Len(s) :
                  /\ k = Len(s) \/ s[k + 1] = " "
                  /\ \A j \in 1..k : s[j] # " "
       IN <<SubSeq(s, 1, n)>> \o Words(SubSeq(s, n + 1, Len(s)))

\* The words between the sigil of the tag being parsed and offset e.
TagWords(e) == Words(Slice(source, SigilEnd, e))

Top(stk) == stk[Len(stk)]

Range(f) == { f[i] : i \in DOMAIN f }

\* A step that calls pop_section, and the identifier it is called with.
PopStep == pc = "closing" \/ (pc = "closing_loop" /\ Tok.tok = "Ident")
PopIdent == IF pc = "closing" THEN name ELSE SliceOf(Tok)

(***************************************************************************)
(* Claims.                                                                 *)
(***************************************************************************)

\* C1: when the Opening lexer reaches the end of the source while the
\* opener stack is non-empty, parse returns UnclosedSection with the name of
\* the block the top frame indexes.
C1_UnclosedSectionAtEnd ==
  [][(pc = "open" /\ OpeningNext(source, pos).tok = "None" /\ stack # <<>>)
       => result' = Err("UnclosedSection", blocks[Top(stack) + 1].name)]_vars

IsOpenerTag(t) == t \in {"Section", "Inverse"}

NoPartials == \A i \in 1..Len(blocks) : blocks[i].tag # "Partial"

\* C2 as stated, on the sources made of whole tags and literal text whose
\* parse leaves no opener on the stack (so that the openers C1 is about play
\* no part): after a successful parse without partials every Section or
\* Inverse block at index i, synthetic ones included, has a Closing block at
\* index i + children.
C2_OpenersPointAtClosing ==
  (pc = "done" /\ result.kind = "Ok" /\ NoPartials /\ stack = <<>>
     /\ source \in TagSources) =>
    \A i \in 1..Len(blocks) :
      IsOpenerTag(blocks[i].tag) =>
        /\ i + blocks[i].children <= Len(blocks)
        /\ blocks[i + blocks[i].children].tag = "Closing"

\* C2 amended: after a successful parse without partials, a Section or
\* Inverse block at index i is either still on the opener stack with
\* children 0, or was popped and block i + children is a Closing block, or is
\* a synthetic Section of a variable tag and block i + children is the
\* Escaped or Unescaped terminal of that tag, with only the tag's other
\* synthetic Sections between them.
C2_OpenersPointAtSubtreeEnd ==
  (pc = "done" /\ result.kind = "Ok" /\ NoPartials) =>
    \A i \in 1..Len(blocks) :
      IsOpenerTag(blocks[i].tag) =>
        LET c == blocks[i].children
        IN /\ i + c <= Len(blocks)
           /\ \/ (i - 1) \in Range(stack) /\ c = 0
              \/ /\ (i - 1) \notin Range(stack)
                 /\ c >= 1
                 /\ blocks[i + c].tag = "Closing"
              \/ /\ (i - 1) \notin Range(stack)
                 /\ c >= 1
                 /\ blocks[i].tag = "Section"
                 /\ blocks[i + c].tag \in {"Escaped", "Unescaped"}
                 /\ \A j \in (i + 1)..(i + c - 1) :
                      /\ blocks[j].tag = "Section"
                      /\ blocks[j].children = i + c - j

\* {{#a}}x{{/a}}{{ a b }} parsed: one popped opener and one synthetic Section.
C2_Witness ==
  /\ pc = "done"
  /\ result.kind = "Ok"
  /\ Len(blocks) = 4
  /\ stack = <<>>
  /\ blocks[1].tag = "Section" /\ blocks[1].children = 1
  /\ blocks[2].tag = "Closing"
  /\ blocks[3].tag = "Section" /\ blocks[3].children = 1
  /\ blocks[4].tag = "Escaped"

\* C3: an identifier of a closing tag whose hash differs from the hash of
\* the opener popped for it makes parse fail with UnclosedSection carrying
\* the opener's name; an identifier whose hash agrees lets parse go on; and
\* {{#a}}x{{/b}} fails with UnclosedSection("a").
C3_MismatchedCloser ==
  [][/\ (PopStep /\ stack # <<>>) =>
          LET head == blocks[Top(stack) + 1]
          IN IF head.hash # hash_name(PopIdent)
               THEN pc' = "done" /\ result' = Err("UnclosedSection", head.name)
               ELSE pc' = "closing_loop" /\ result' = Running
     /\ (source = Src_a_x_close_b /\ pc' = "done")
          => result' = Err("UnclosedSection", <<"a">>)]_vars

\* {{#a b}}{{/a}}: the closer names the outer opener, the inner one is popped.
C3_Witness ==
  /\ pc = "done"
  /\ result = Err("UnclosedSection", <<"b">>)
  /\ name = <<"a">>
  /\ tag = "Closing"
  /\ Len(blocks) = 3
  /\ stack = <<0>>

\* C4: an identifier of a closing tag processed while the opener stack is
\* empty makes parse fail with UnopenedSection carrying that identifier:
\* {{/x}} gives UnopenedSection("x"), {{#a}}{{/a b}} gives
\* UnopenedSection("b").
C4_UnopenedSection ==
  [][/\ (PopStep /\ stack = <<>>)
          => pc' = "done" /\ result' = Err("UnopenedSection", PopIdent)
     /\ (source = Src_close_x /\ pc' = "done")
          => result' = Err("UnopenedSection", <<"x">>)
     /\ (source = Src_a_close_a_b /\ pc' = "done")
          => result' = Err("UnopenedSection", <<"b">>)]_vars

\* {{#a}}{{/a b}} has failed at the identifier b.
C4_Witness ==
  /\ source = Src_a_close_a_b
  /\ pc = "done"
  /\ result = Err("UnopenedSection", <<"b">>)
  /\ stack = <<>>

\* C5: the opener stack never holds more than 16 frames; a Section or
\* Inverse identifier met with 16 frames on the stack makes parse fail with
\* the nesting overflow error and appends no block; and parse fails with that
\* error in no other case.
C5_StackBound ==
  [][/\ Len(stack) <= StackCap
     /\ Len(stack') <= StackCap
     /\ (pc = "section" /\ Tok.tok \in {"Ident", "Match"} /\ Len(stack) = StackCap)
          => /\ result' = Err("NestingOverflow", <<>>)
             /\ blocks' = blocks
             /\ stack' = stack
     /\ result'.kind = "NestingOverflow"
          => /\ pc = "section"
             /\ Len(stack) = StackCap
     /\ (source = Repeat(OpenS, StackCap + 1) /\ pc' = "done")
          => result'.kind = "NestingOverflow"
     /\ (source = Repeat(OpenS, StackCap) \o Repeat(CloseS, StackCap) /\ pc' = "done")
          => result'.kind = "Ok"]_vars

\* 15 nested {{#s}} then {{#a b}}: a is pushed as the 16th frame, b overflows.
C5_Witness ==
  /\ pc = "done"
  /\ result.kind = "NestingOverflow"
  /\ Len(stack) = StackCap
  /\ Len(blocks) = StackCap
  /\ blocks[StackCap].name = <<"a">>
  /\ name = <<"b">>


\* The openers whose children point at the block at index ci.
PointingAt(bs, ci) == { h \in 0..(ci - 1) : bs[h + 1].children = ci - h }

\* C6: a closing tag with k >= 1 identifiers appends exactly one Closing
\* block, carrying the captured html, and pops exactly k frames in LIFO
\* order: each identifier pops the top frame h and sets its children to
\* closing_block_index - h; the j-th identifier has the hash of the j-th
\* popped opener from the top; {{#a}}{{#b}}x{{/b a}} succeeds with
\* b.children = 1 and a.children = 2, and {{#a}}{{#b}}x{{/a b}} fails.
C6_ClosingTag ==
  [][/\ (PopStep /\ stack # <<>>) =>
          /\ stack' = SubSeq(stack, 1, Len(stack) - 1)
          /\ blocks'[Top(stack) + 1].children = tail_idx - Top(stack)
          /\ Len(blocks') = tail_idx + 1
     /\ (pc = "closing_loop" /\ pc' = "open" /\ tok = "Ident") =>
          LET ids == TagWords(Tok.start)
              k == Len(ids)
              popped == PointingAt(blocks, tail_idx)
          IN /\ k >= 1
             /\ blocks' = blocks
             /\ stack' = stack
             /\ Len(blocks) = tail_idx + 1
             /\ blocks[tail_idx + 1] =
                  [html |-> CapturedHtml, name |-> <<>>, hash |-> 0,
                   tag |-> "Closing", children |-> 0]
             /\ Cardinality(popped) = k
             /\ \A h \in popped :
                  /\ blocks[h + 1].hash =
                       hash_name(ids[Cardinality({g \in popped : g >= h})])
                  /\ \A i \in 1..Len(stack) : stack[i] < h
     /\ (source = Src_a_b_x_close_b_a /\ pc' = "done") =>
          /\ result'.kind = "Ok"
          /\ blocks'[2].children = 1
          /\ blocks'[1].children = 2
          /\ Len(blocks') = 3
     /\ (source = Src_a_b_x_close_a_b /\ pc' = "done") =>
          result'.kind # "Ok"]_vars

\* {{#a}}{{#b}}x{{/b a}} parsed.
C6_Witness ==
  /\ source = Src_a_b_x_close_b_a
  /\ pc = "done"
  /\ result.kind = "Ok"
  /\ stack = <<>>
  /\ blocks[3].tag = "Closing" /\ blocks[3].html = <<"x">>
  /\ blocks[1].children = 2 /\ blocks[2].children = 1

\* C7: an Escaped or Unescaped tag with n >= 1 identifiers appends exactly n
\* blocks in identifier order: the first n - 1 are Section blocks, the last
\* has the tag's kind; the first carries the captured html and the others
\* ""; the k-th block gets children n - k; the opener stack is unchanged
\* while the tag is parsed.
C7_VariableTag ==
  [][/\ (pc = "escaped") => stack' = stack
     /\ (pc = "escaped" /\ pc' = "open" /\ tok = "Ident") =>
          LET ids == TagWords(Tok.start)
              n == Len(ids)
          IN /\ n >= 1
             /\ Len(blocks') = tail_idx + n
             /\ SubSeq(blocks', 1, tail_idx) = SubSeq(blocks, 1, tail_idx)
             /\ \A k \in 1..n :
                  blocks'[tail_idx + k] =
                    [html |-> IF k = 1 THEN CapturedHtml ELSE <<>>,
                     name |-> ids[k],
                     hash |-> hash_name(ids[k]),
                     tag |-> IF k < n THEN "Section" ELSE tag,
                     children |-> n - k]]_vars

\* {{ a b }} parsed: Section a with children 1, then Escaped b with children 0.
C7_Witness ==
  /\ source = <<"{", "{", " ", "a", " ", "b", " ", "}", "}">>
  /\ pc = "done"
  /\ result.kind = "Ok"
  /\ stack = <<>>
  /\ blocks = << [html |-> <<>>, name |-> <<"a">>, hash |-> hash_name(<<"a">>),
                  tag |-> "Section", children |-> 1],
                 [html |-> <<>>, name |-> <<"b">>, hash |-> hash_name(<<"b">>),
                  tag |-> "Escaped", children |-> 0] >>

\* C8: a Section or Inverse tag with n >= 1 identifiers appends n blocks,
\* the first n - 1 with tag Section and the last with the tag's kind, and
\* pushes exactly n frames, the indices of these blocks in order, on top of
\* the frames that were there; {{#a b}}x{{/b a}} parses with every frame
\* popped and {{#a b}}x{{/b}} ends with the frame of a on the stack.
C8_SectionTag ==
  [][/\ (pc = "section" /\ pc' # "done") =>
          /\ stack' = Append(stack, Len(blocks))
          /\ Len(blocks') = Len(blocks) + 1
     /\ (pc = "section" /\ pc' = "open" /\ tok = "Ident") =>
          LET ids == TagWords(Tok.start)
              n == Len(ids)
              m == Len(stack') - n
          IN /\ n >= 1
             /\ Len(blocks') = tail_idx + n
             /\ SubSeq(blocks', 1, tail_idx) = SubSeq(blocks, 1, tail_idx)
             /\ \A k \in 1..n :
                  blocks'[tail_idx + k] =
                    [html |-> IF k = 1 THEN CapturedHtml ELSE <<>>,
                     name |-> ids[k],
                     hash |-> hash_name(ids[k]),
                     tag |-> IF k < n THEN "Section" ELSE tag,
                     children |-> 0]
             /\ m >= 0
             /\ \A k \in 1..n : stack'[m + k] = tail_idx + k - 1
             /\ \A i \in 1..m : stack'[i] < tail_idx
     /\ (source = Src_ab_x_close_b_a /\ pc' = "done") =>
          result'.kind = "Ok" /\ stack' = <<>>
     /\ (source = Src_ab_x_close_b /\ pc' = "done") =>
          stack' = <<0>> /\ blocks'[1].name = <<"a">>]_vars

\* {{#a}}{{^a b}} parsed: the frames of the Section a and the Inverse b are
\* pushed on top of the frame of the first opener.
C8_Witness ==
  /\ pc = "open"
  /\ tag = "Inverse"
  /\ stack = <<0, 1, 2>>
  /\ Len(blocks) = 3
  /\ blocks[2].tag = "Section" /\ blocks[2].name = <<"a">>
  /\ blocks[3].tag = "Inverse" /\ blocks[3].name = <<"b">>


\* C9 as stated: a source of the form {{#a.b c}}...{{/c b a}} parses, with
\* every frame the opener pushed popped.
C9_DottedOpenerThreeCloser ==
  (pc = "done" /\ \E b \in DottedBodies : source = Open_ab_c \o b \o Close_c_b_a)
    => result.kind = "Ok" /\ stack = <<>>

\* C9 amended: a.b is one identifier, so {{#a.b c}} pushes two frames, a.b
\* and c; {{#a.b c}}...{{/c a.b}} parses with both frames popped and
\* hash-matched, and {{#a.b c}}...{{/c b a}} fails with
\* UnclosedSection("a.b").
C9_DottedOpenerTwoCloser ==
  /\ (pc = "done" /\ \E b \in DottedBodies : source = Open_ab_c \o b \o Close_c_ab)
       => /\ result.kind = "Ok"
          /\ stack = <<>>
          /\ blocks[1].name = <<"a", ".", "b">>
          /\ blocks[2].name = <<"c">>
          /\ blocks[Len(blocks)].tag = "Closing"
          /\ blocks[1].children = Len(blocks) - 1
          /\ blocks[2].children = Len(blocks) - 2
  /\ (pc = "done" /\ \E b \in DottedBodies : source = Open_ab_c \o b \o Close_c_b_a)
       => result = Err("UnclosedSection", <<"a", ".", "b">>)

\* {{#a.b c}}x{{/c a.b}} parsed.
C9_Witness ==
  /\ source = Open_ab_c \o <<"x">> \o Close_c_ab
  /\ pc = "done"
  /\ result.kind = "Ok"
  /\ stack = <<>>
  /\ Len(blocks) = 3

\* What the Comment arm does to a tag whose first token was an identifier:
\* identifiers change neither the blocks nor the stack, the closing
\* delimiter appends one nameless Comment block carrying the captured html,
\* and the tag fails only where no closing delimiter follows.
CommentWithIdents ==
  /\ (Tok.tok = "Ident") =>
       pc' = "comment" /\ blocks' = blocks /\ stack' = stack
  /\ (Tok.tok = "Match") =>
       /\ pc' = "open"
       /\ Len(TagWords(Tok.start)) >= 1
       /\ blocks' = Append(blocks, [html |-> CapturedHtml, name |-> <<>>,
                                    hash |-> 0, tag |-> "Comment",
                                    children |-> 0])
       /\ stack' = stack
  /\ (pc' = "done") => Tok.tok \in {"Err", "None"}

\* C10 as stated: a Comment tag with any number k >= 0 of identifiers before
\* its closing delimiter is accepted; with k = 0, where the closing delimiter
\* is the first token, the tag ends there with one nameless Comment block
\* carrying the captured html appended and the opener stack unchanged.
C10_CommentAnyIdents ==
  [][/\ (pc = "comment" /\ tok = "Ident") => CommentWithIdents
     /\ (pc = "comment" /\ tok = "Match") =>
          /\ pc' = "open"
          /\ blocks' = Append(blocks, [html |-> CapturedHtml, name |-> <<>>,
                                       hash |-> 0, tag |-> "Comment",
                                       children |-> 0])
          /\ stack' = stack]_vars

\* C10 amended: a Comment tag with any number k >= 1 of identifiers before
\* its closing delimiter is accepted: the identifiers are discarded, one
\* nameless Comment block carrying the captured html is appended and the
\* opener stack is unchanged.
C10_CommentWithIdents ==
  [][(pc = "comment" /\ tok = "Ident") => CommentWithIdents]_vars

\* {{! a b c}}x parsed.
C10_Witness ==
  /\ source = <<"{","{","!"," ","a"," ","b"," ","c","}","}", "x">>
  /\ pc = "done"
  /\ result = Ok(11)
  /\ stack = <<>>
  /\ blocks = << [html |-> <<>>, name |-> <<>>, hash |-> 0, tag |-> "Comment",
                  children |-> 0] >>


(***************************************************************************)
(* The closing delimiter, read from the source.                            *)
(***************************************************************************)
InTag == pc \in {"escaped", "section", "closing_loop", "partial", "comment"}

\* The number of closing braces the sigil of the tag being parsed asks for.
Expected == IF At(source, TagStart + 2) = "{" THEN 3 ELSE 2

\* The offset of the first byte at or after p that is not a space.
SkipSpaces(src, p) ==
  CHOOSE q \in p..Len(src) :
    /\ q = Len(src) \/ At(src, q) # " "
    /\ \A r \in p..(q - 1) : At(src, r) = " "

\* The number of consecutive "}" at offset p.
BraceRun(src, p) ==
  CHOOSE n \in 0..(Len(src) - p) :
    /\ \A r \in p..(p + n - 1) : At(src, r) = "}"
    /\ At(src, p + n) # "}"

\* The next token starts at a "}".
AtBraces == At(source, SkipSpaces(source, pos)) = "}"

\* The run of "}" the next token starts with.
RunHere == BraceRun(source, SkipSpaces(source, pos))

\* C11 as stated, for the tokens after the first of a tag: a run of "}" is
\* the closing delimiter only when its length equals the number of braces
\* the sigil asked for (three for "{{{", two otherwise), and any other
\* length makes parse fail with UnclosedTag.
C11_ExactBraceCount ==
  [][(InTag /\ AtBraces) =>
       /\ (Tok.tok = "Match") <=> (RunHere = Expected)
       /\ (RunHere # Expected) =>
            pc' = "done" /\ result' = Err("UnclosedTag", <<>>)]_vars

\* C11 amended: a run of "}" is the closing delimiter when it has at least
\* the number of braces the sigil asked for; a shorter run is the error
\* token, and makes parse fail with UnclosedTag when it is met after the
\* first token of the tag; as the first token of a tag it is consumed and
\* parse goes on.
C11_AtLeastBraceCount ==
  [][/\ (InTag /\ AtBraces) =>
          /\ (Tok.tok = "Match") <=> (RunHere >= Expected)
          /\ (RunHere < Expected) =>
               pc' = "done" /\ result' = Err("UnclosedTag", <<>>)
          /\ (RunHere >= Expected /\ pc' = "done") =>
               result'.kind \in {"NestingOverflow", "PartialNotFound"}
     /\ (pc = "open" /\ pc' # "done"
           /\ At(source, SkipSpaces(source, SigilEnd)) = "}") =>
          /\ (tok' = "Match") <=>
               (BraceRun(source, SkipSpaces(source, SigilEnd)) >= Expected)
          /\ tok' \in {"Match", "Err"}
          /\ extras' = Expected]_vars

\* {{#a}}} parsed: three braces close a tag that asked for two.
C11_Witness ==
  /\ source = <<"{", "{", "#", "a", "}", "}", "}">>
  /\ pc = "done"
  /\ result = Ok(6)
  /\ pos = 7
  /\ Len(blocks) = 1

\* C12: when a tag is closed the cursor last is set to the start of the
\* closing delimiter plus the number of braces the sigil asked for, so a
\* surplus "}" stays in the literal stream; {{foo}}} parses as an Escaped tag
\* followed by the literal "}", and {{{raw}}}} returns 9 with the literal "}"
\* after it.
C12_CursorAfterExpectedBraces ==
  [][/\ (InTag /\ pc' = "open") =>
          /\ last' = SkipSpaces(source, pos) + Expected
          /\ \A r \in (last' - Expected)..(last' - 1) : At(source, r) = "}"
          /\ pos' - last' \in {0, 1}
          /\ (pos' > last') => At(source, last') = "}"
     /\ (source = Src_foo_3 /\ pc' = "done") =>
          /\ result' = Ok(7)
          /\ Slice(source, result'.tail, Len(source)) = <<"}">>
          /\ Len(blocks') = 1
          /\ blocks'[1].tag = "Escaped"
          /\ blocks'[1].name = <<"f", "o", "o">>
     /\ (source = Src_foo_3_b /\ pc' = "done") =>
          /\ result'.kind = "Ok"
          /\ blocks'[2].html = <<"}">>
     /\ (source = Src_raw_4 /\ pc' = "done") =>
          /\ result' = Ok(9)
          /\ Slice(source, result'.tail, Len(source)) = <<"}">>]_vars

\* {{foo}}}{{b}} parsed: the block of b carries the surplus brace.
C12_Witness ==
  /\ source = Src_foo_3_b
  /\ pc = "done"
  /\ result = Ok(13)
  /\ Len(blocks) = 2
  /\ blocks[2].html = <<"}">>
  /\ blocks[2].name = <<"b">>


(***************************************************************************)
(* The literal text of a source, read from the source alone.               *)
(***************************************************************************)
\* The offset of the first "}" at or after p (the source's length if none).
FirstBraceFrom(src, p) ==
  CHOOSE q \in p..Len(src) :
    /\ q = Len(src) \/ At(src, q) = "}"
    /\ \A r \in p..(q - 1) : At(src, r) # "}"

\* The end of the span of the tag at offset ts: the expected number of
\* braces after the first "}" that follows the sigil.
SpanEnd(src, ts) ==
  LET three == At(src, ts + 2) = "{"
      se    == ts + (IF At(src, ts + 2) \in SigilChars THEN 3 ELSE 2)
      e     == FirstBraceFrom(src, se) + (IF three THEN 3 ELSE 2)
  IN IF e > Len(src) THEN Len(src) ELSE e

\* The source from offset p on with every tag span removed.
RECURSIVE WithoutTags(_, _)
WithoutTags(src, p) ==
  LET ts == FirstTagFrom(src, p)
  IN IF ts = Len(src) THEN Slice(src, p, Len(src))
     ELSE Slice(src, p, ts) \o WithoutTags(src, SpanEnd(src, ts))

\* The html of the blocks bs in block order.
AllHtml(bs) == Flatten([i \in 1..Len(bs) |-> bs[i].html])

\* C13: for every source that parses successfully without partials, the
\* html of all blocks in block order followed by source[tail_offset..] is the
\* source with every tag span, from the first byte of the sigil through the
\* expected number of closing braces, removed.
C13_LiteralsPreserved ==
  (pc = "done" /\ result.kind = "Ok" /\ NoPartials) =>
    AllHtml(blocks) \o Slice(source, result.tail, Len(source))
      = WithoutTags(source, 0)


RECURSIVE SumLen(_)
SumLen(ps) == IF ps = <<>> THEN 0 ELSE Len(Head(ps)) + SumLen(Tail(ps))

\* The sum of html.len() over the blocks bs.
SumHtml(bs) == SumLen([i \in 1..Len(bs) |-> bs[i].html])

\* C14: after every step of parse capacity_hint is at least the sum of
\* html.len() over the blocks of the template; it grows by the length of the
\* captured html when a tag is opened and by the partial's capacity hint
\* when a partial is inlined, and by nothing else.
C14_CapacityHint ==
  [][/\ capacity_hint' >= SumHtml(blocks')
     /\ IF pc = "open" /\ pc' # "done"
          THEN capacity_hint' = capacity_hint + Len(CapturedHtml)
          ELSE IF pc = "partial" /\ pc' = "open"
            THEN /\ capacity_hint' = capacity_hint + get_partial(name).capacity_hint
                 /\ SumHtml(blocks') = SumHtml(blocks) + Len(html)
                                         + SumHtml(get_partial(name).blocks)
            ELSE capacity_hint' = capacity_hint]_vars

\* A {{>p}} B parsed: the hint counts "A " and the partial's hint.
C14_Witness ==
  /\ source = Src_A_p_B
  /\ pc = "done"
  /\ result.kind = "Ok"
  /\ capacity_hint = 3
  /\ SumHtml(blocks) = 3

\* The identifiers between the sigil of the tag being parsed and the first
\* "}" after it.
TagIdents == TagWords(FirstBraceFrom(source, SigilEnd))

\* C15: a Partial tag with no identifier or with two or more fails with
\* UnclosedTag and the resolver is not called; with one identifier it
\* appends a nameless Partial block carrying the captured html and then the
\* resolver's blocks in order, adds the partial's capacity hint and leaves
\* the stack unchanged; an error of the resolver is the result of parse.
C15_PartialTag ==
  [][(pc = "partial") =>
       /\ pc' \in {"open", "done"}
       /\ stack' = stack
       /\ (Len(TagIdents) # 1) =>
            /\ pc' = "done"
            /\ result' = Err("UnclosedTag", <<>>)
            /\ blocks' = blocks
       /\ (Len(TagIdents) = 1 /\ pc' = "open") =>
            /\ get_partial(TagIdents[1]).ok
            /\ blocks' = Append(blocks, Block_nameless(CapturedHtml, "Partial"))
                           \o get_partial(TagIdents[1]).blocks
            /\ capacity_hint' = capacity_hint
                                  + get_partial(TagIdents[1]).capacity_hint
       /\ (Len(TagIdents) = 1 /\ Tok.tok = "Match"
             /\ ~get_partial(TagIdents[1]).ok) =>
            /\ pc' = "done"
            /\ result' = Err("PartialNotFound", TagIdents[1])]_vars


\* C16 as stated: {{#items}}x{{/items}} parses into a Section block with
\* html "", name "items" and children 2, followed by a Closing block with
\* html "x" and children 0.
C16_ItemsChildrenTwo ==
  (source = Src_items /\ pc = "done") =>
    /\ result.kind = "Ok"
    /\ blocks = << [Block_new(<<>>, <<"i", "t", "e", "m", "s">>, "Section")
                      EXCEPT !.children = 2],
                   Block_nameless(<<"x">>, "Closing") >>

\* C16 amended: {{#items}}x{{/items}} parses into a Section block with
\* html "", name "items" and children 1, the distance to its Closing block,
\* followed by a Closing block with html "x" and children 0; parse
\* returns 21.
C16_ItemsChildrenOne ==
  (source = Src_items /\ pc = "done") =>
    /\ result = Ok(21)
    /\ blocks = << [Block_new(<<>>, <<"i", "t", "e", "m", "s">>, "Section")
                      EXCEPT !.children = 1],
                   Block_nameless(<<"x">>, "Closing") >>

\* {{#items}}x{{/items}} parsed.
C16_Witness ==
  /\ source = Src_items
  /\ pc = "done"
  /\ Len(blocks) = 2
  /\ blocks[1].children = 1
  /\ blocks[2].tag = "Closing"

\* The one block of Hello {{name}}!
HelloBlocks ==
  << Block_new(<<"H", "e", "l", "l", "o", " ">>, <<"n", "a", "m", "e">>,
               "Escaped") >>

\* C17 as stated: Hello {{name}}! parses into the one block with html
\* "Hello ", name "name", tag Escaped and children 0, and parse returns 13.
C17_HelloTailThirteen ==
  (source = Src_hello /\ pc = "done") =>
    /\ blocks = HelloBlocks
    /\ result = Ok(13)

\* C17 amended: Hello {{name}}! parses into the one block with html
\* "Hello ", name "name", tag Escaped and children 0, and parse returns 14,
\* the offset of "!".
C17_HelloTailFourteen ==
  (source = Src_hello /\ pc = "done") =>
    /\ blocks = HelloBlocks
    /\ result = Ok(14)
    /\ At(source, result.tail) = "!"
    /\ Slice(source, result.tail, Len(source)) = <<"!">>

\* Hello {{name}}! parsed.
C17_Witness ==
  /\ source = Src_hello
  /\ pc = "done"
  /\ result.kind = "Ok"
  /\ Len(blocks) = 1
  /\ last = 14

\* C18: the block list is append-only: no step removes a block or changes
\* the html, name, hash or tag of a block already in the list, and the
\* children of a block already in the list changes only when pop_section
\* pops it as the top opener or when it is a synthetic Section of the
\* variable tag being closed.
C18_AppendOnly ==
  [][/\ Len(blocks') >= Len(blocks)
     /\ \A i \in 1..Len(blocks) :
          /\ blocks'[i].html = blocks[i].html
          /\ blocks'[i].name = blocks[i].name
          /\ blocks'[i].hash = blocks[i].hash
          /\ blocks'[i].tag = blocks[i].tag
          /\ (blocks'[i].children # blocks[i].children) =>
               \/ /\ PopStep
                  /\ stack # <<>>
                  /\ i = Top(stack) + 1
                  /\ stack' = SubSeq(stack, 1, Len(stack) - 1)
                  /\ IsOpenerTag(blocks[i].tag)
               \/ /\ pc = "escaped"
                  /\ pc' = "open"
                  /\ i > tail_idx
                  /\ blocks[i].tag = "Section"]_vars

\* A dotted variable after another tag, closed: its synthetic Section was
\* back-filled and the block before it kept its children.
C18_Witness ==
  /\ pc = "open"
  /\ tag \in {"Escaped", "Unescaped"}
  /\ tail_idx > 0
  /\ Len(blocks) > tail_idx + 1
  /\ blocks[tail_idx + 1].tag = "Section"
  /\ blocks[tail_idx + 1].children = Len(blocks) - tail_idx - 1
  /\ blocks[tail_idx].children = 0

\* C19: the lexer's expected brace count is Two whenever the Opening lexer
\* scans for a tag; while a tag is parsed it is Three exactly when the
\* tag's sigil is "{{{"; so {{b}} is parsed the same after {{{a}}} as at
\* the start of a source.
C19_ExtrasReset ==
  /\ extras \in {Two, Three}
  /\ (pc = "open") => extras = Two
  /\ (InTag \/ pc = "closing") =>
       ((extras = Three) <=> (At(source, TagStart + 2) = "{"))
  /\ (source = Src_a3_b_x /\ pc = "done") =>
       /\ result = Ok(12)
       /\ blocks[2] = Block_new(<<>>, <<"b">>, "Escaped")
  /\ (source = Src_b_x /\ pc = "done") =>
       /\ result = Ok(5)
       /\ blocks[1] = Block_new(<<>>, <<"b">>, "Escaped")

\* {{{a}}}{{b}}x with the tag of b being parsed.
C19_Witness ==
  /\ source = Src_a3_b_x
  /\ pc = "escaped"
  /\ last = 7
  /\ extras = Two
  /\ Len(blocks) = 1
  /\ blocks[1].tag = "Unescaped"

\* C20: the cursor last never decreases; last <= the lexer's position <=
\* the length of the source, and last is at most the start of the next tag;
\* every frame of the stack is the index of a block of the list, below the
\* index of any Closing block appended later, so that the children
\* pop_section computes is positive.
C20_CursorAndFrames ==
  [][/\ last' >= last
     /\ last' <= pos'
     /\ pos' <= Len(source)
     /\ pos' >= pos
     /\ (pc' = "open" /\ OpeningNext(source, pos').tok = "Match") =>
          last' <= OpeningNext(source, pos').start
     /\ (pc' = "done" /\ result'.kind = "Ok") => result'.tail <= Len(source)
     /\ \A k \in 1..Len(stack') :
          /\ stack'[k] < Len(blocks')
          /\ IsOpenerTag(blocks'[stack'[k] + 1].tag)
          /\ (k > 1) => stack'[k - 1] < stack'[k]
     /\ (pc' \in {"closing", "closing_loop"}) =>
          \A k \in 1..Len(stack') : ChildrenOf(tail_idx', stack'[k]) > 0
     /\ (PopStep /\ stack # <<>> /\ stack' # stack) =>
          /\ blocks'[Top(stack) + 1].children > 0
          /\ blocks'[Top(stack) + 1].children = tail_idx - Top(stack)]_vars

\* {{#items}}x{{/items}} with the closing tag's identifier read and the
\* opener popped.
C20_Witness ==
  /\ source = Src_items
  /\ pc = "closing_loop"
  /\ stack = <<>>
  /\ last = 10
  /\ pos = 19
  /\ tail_idx = 1
  /\ blocks[1].children = 1

====
